---- MODULE Spec2Model ----
(***************************************************************************)
(* Intent classification and dispatch pipeline of the Molaison Executive   *)
(* Assistant (molaison-executive-assistant.js): handleChatMessage,         *)
(* analyzeIntent, the capability handlers, logConversation,                *)
(* processVoiceInput and updateOpenAIConfig.                               *)
(*                                                                         *)
(* Node runs one handler at a time; a handler gives up control only while  *)
(* an axios call is in flight.  Each action below is therefore one run of  *)
(* a handler from the point where it is (re)entered to the point where it  *)
(* next waits for the network or finishes.                                 *)
(***************************************************************************)
EXTENDS Integers, Sequences, FiniteSets, TLC

(***************************************************************************)
(* JavaScript values.  A value is a record tagged by t; the payload field  *)
(* is named after the tag so that values of different types compare        *)
(* unequal.  Numbers that are fractions in the source (confidence 0.7)     *)
(* are kept in tenths.                                                     *)
(***************************************************************************)
Str(s) == [t |-> "string", s |-> s]
Num(n) == [t |-> "number", n |-> n]
Arr(items) == [t |-> "array", items |-> items]
Obj(f) == [t |-> "object", f |-> f]
Undefined == [t |-> "undefined"]
Null == [t |-> "null"]

\* typeof v: null and arrays are "object".
typeof(v) == IF v.t \in {"null", "array"} THEN "object" ELSE v.t

\* v.name: a property read.  Reading a property of null or undefined throws
\* a TypeError; on a string or number an unknown property is undefined.
ReadThrows(v) == v.t \in {"null", "undefined"}
Get(v, name) == IF v.t = "object" /\ name \in DOMAIN v.f THEN v.f[name] ELSE Undefined

\* ToBoolean(v), as used by !v, v || d and v && w.
Truthy(v) ==
    CASE v.t \in {"undefined", "null"} -> FALSE
      [] v.t = "string" -> v.s # ""
      [] v.t = "number" -> v.n # 0
      [] OTHER -> TRUE

\* An object parsed from JSON whose own toString is not a function cannot be
\* converted to a primitive: `${v}` throws a TypeError.
ToStringThrows(v) == v.t = "object" /\ "toString" \in DOMAIN v.f

\* `${v}` for the values that convert.
stringOf(v) ==
    CASE v.t = "string" -> v.s
      [] v.t = "undefined" -> "undefined"
      [] v.t = "null" -> "null"
      [] OTHER -> "[object Object]"

\* v || d inside a template literal, for a string or undefined v.
OrDefault(v, d) == IF Truthy(v) THEN stringOf(v) ELSE d

(***************************************************************************)
(* String.prototype.toLowerCase and String.prototype.includes.             *)
(***************************************************************************)
LowerOf(c) ==
    CASE c = "A" -> "a" [] c = "B" -> "b" [] c = "C" -> "c" [] c = "D" -> "d"
      [] c = "E" -> "e" [] c = "F" -> "f" [] c = "G" -> "g" [] c = "H" -> "h"
      [] c = "I" -> "i" [] c = "J" -> "j" [] c = "K" -> "k" [] c = "L" -> "l"
      [] c = "M" -> "m" [] c = "N" -> "n" [] c = "O" -> "o" [] c = "P" -> "p"
      [] c = "Q" -> "q" [] c = "R" -> "r" [] c = "S" -> "s" [] c = "T" -> "t"
      [] c = "U" -> "u" [] c = "V" -> "v" [] c = "W" -> "w" [] c = "X" -> "x"
      [] c = "Y" -> "y" [] c = "Z" -> "z" [] OTHER -> c

RECURSIVE toLowerCase(_)
toLowerCase(str) ==
    IF str = "" THEN ""
    ELSE LowerOf(SubSeq(str, 1, 1)) \o toLowerCase(SubSeq(str, 2, Len(str)))

includes(str, sub) ==
    \E i \in 0..(Len(str) - Len(sub)) : SubSeq(str, i + 1, i + Len(sub)) = sub


(***************************************************************************)
(* The assistant modules: each handleRequest returns a fixed text.         *)
(***************************************************************************)
EmailManagerText ==
    "I'll help you manage your emails for both Molaison Agency and Molaison AI. What specific email task would you like me to handle?"
CalendarAssistantText ==
    "I can help you schedule appointments, make reservations, and manage your calendar across both businesses. What would you like me to schedule?"
PhoneAssistantText ==
    "I can make calls on your behalf for client outreach, follow-ups, or business development. Who would you like me to call?"
ResearchAssistantText ==
    "I'll conduct comprehensive research using Perplexity AI. What topic or competitor would you like me to research?"
LifeCoachText ==
    "As your productivity coach, I can help you optimize your time, set goals, and balance running both Molaison Agency and Molaison AI. What area would you like to focus on?"
SocialMediaManagerText ==
    "I'll manage social media for both your brands. Would you like me to create content, schedule posts, or analyze engagement?"
ClientProjectManagerText ==
    "I'll help manage your client projects and custom builds. What project updates or new client work do you need help with?"
BusinessIntelligenceText ==
    "I'll analyze business performance for both Molaison Agency and Molaison AI. What metrics or insights do you need?"

(***************************************************************************)
(* handlePromptRequest(message, context, businessContext).  The whole body *)
(* is inside try/catch: a message without toLowerCase (not a string)       *)
(* throws and the catch returns the clarifying question.                   *)
(***************************************************************************)
ClarifyingQuestion ==
    "I can help you with AI prompt generation, content calendars, and viral captions. What specific type of content would you like me to create?"
billyGeneTemplates(businessContext) ==
    <<"Create a cinematic, high-budget commercial style image of " \o OrDefault(businessContext, "your business") \o ". Shot with professional lighting, shallow depth of field, and dramatic color grading. Include luxury brand aesthetics, premium materials, and sophisticated composition that conveys exclusivity and high value for business owners.",
      "Professional lifestyle photography showing business owners using " \o OrDefault(businessContext, "your business") \o " services in an aspirational setting. Clean, modern aesthetic with natural lighting. Show the transformation and elevated lifestyle this service enables. Include authentic human emotion and premium environment details.",
      "Split-screen comparison image showing 'before and after' or 'problem vs solution' for business owners. Left side shows business frustration/difficulty, right side shows ease/success with " \o OrDefault(businessContext, "your business") \o ". Professional photography with clear visual storytelling and emotional impact.",
      "Professional headshot/environment showing expertise and credibility around " \o OrDefault(businessContext, "your business") \o ". Include certifications, awards, professional setting, and visual elements that establish authority for business owners. Warm, trustworthy lighting with confidence-inspiring composition.",
      "Dynamic collage showing multiple happy business owners using " \o OrDefault(businessContext, "your business") \o ". Include diverse demographics, genuine expressions, and results/outcomes. Professional montage style with consistent branding and positive energy throughout.">>
contentThemes(businessContext) ==
    <<[day |-> "Monday", theme |-> "Motivation Monday",
       content |-> "Inspirational content and success stories for business owners using " \o OrDefault(businessContext, "your business"),
       postIdea |-> "Success story: How business owners transformed their results with " \o OrDefault(businessContext, "your business"),
       optimalTime |-> "8:00 AM"],
      [day |-> "Tuesday", theme |-> "Tips Tuesday",
       content |-> "Educational content and industry insights for business owners",
       postIdea |-> "5 tips business owners need to know about " \o OrDefault(businessContext, "your services"),
       optimalTime |-> "9:00 AM"],
      [day |-> "Wednesday", theme |-> "Wisdom Wednesday",
       content |-> "Expert advice and problem-solving for business owners",
       postIdea |-> "Industry secrets business owners should know about " \o OrDefault(businessContext, "your services"),
       optimalTime |-> "11:00 AM"],
      [day |-> "Thursday", theme |-> "Throwback Thursday",
       content |-> "Case studies and testimonials from business owners",
       postIdea |-> "Case study: Business owner success story with " \o OrDefault(businessContext, "your business"),
       optimalTime |-> "2:00 PM"],
      [day |-> "Friday", theme |-> "Feature Friday",
       content |-> "Service highlights and demos for business owners",
       postIdea |-> "Feature spotlight: How " \o OrDefault(businessContext, "your business") \o " helps business owners",
       optimalTime |-> "3:00 PM"]>>

\* A slip: the calendar rule tested before the image-prompt rule.
handlePromptRequestCalendarFirst(message, businessContext) ==
    IF message.t # "string" THEN Str(ClarifyingQuestion)
    ELSE IF \/ includes(toLowerCase(message.s), "content calendar")
            \/ includes(toLowerCase(message.s), "weekly calendar")
    THEN Obj([response |-> Str("Here's your weekly content calendar for " \o OrDefault(businessContext, "your business") \o ":"),
              calendar |-> Arr(contentThemes(businessContext))])
    ELSE IF \/ includes(toLowerCase(message.s), "image prompt")
            \/ includes(toLowerCase(message.s), "high-end image")
            \/ includes(toLowerCase(message.s), "generate")
    THEN Obj([response |-> Str("Here are 5 professional high-end image prompts for " \o OrDefault(businessContext, "your business") \o ":"),
              prompts |-> Arr(billyGeneTemplates(businessContext)),
              promptType |-> Str("high-end-image")])
    ELSE Str(ClarifyingQuestion)

handlePromptRequest(message, businessContext) ==
    IF message.t # "string" THEN Str(ClarifyingQuestion)
    ELSE IF \/ includes(toLowerCase(message.s), "image prompt")
            \/ includes(toLowerCase(message.s), "high-end image")
            \/ includes(toLowerCase(message.s), "generate")
    THEN Obj([response |-> Str("Here are 5 professional high-end image prompts for " \o OrDefault(businessContext, "your business") \o ":"),
              prompts |-> Arr(billyGeneTemplates(businessContext)),
              promptType |-> Str("high-end-image")])
    ELSE IF \/ includes(toLowerCase(message.s), "content calendar")
            \/ includes(toLowerCase(message.s), "weekly calendar")
    THEN Obj([response |-> Str("Here's your weekly content calendar for " \o OrDefault(businessContext, "your business") \o ":"),
              calendar |-> Arr(contentThemes(businessContext))])
    ELSE Str(ClarifyingQuestion)

(***************************************************************************)
(* handleGeneralRequest(message, context): the part before the axios call  *)
(* and the part after it.                                                  *)
(***************************************************************************)
UnconfiguredText(message) ==
    "I understand you need assistance with: \"" \o stringOf(message) \o "\". As your executive assistant for Molaison Agency and Molaison AI, I'm ready to help with business management, client projects, and various tasks. However, advanced AI features require API configuration. Please let me know what specific assistance you need!"
GeneralApology ==
    "I understand you need assistance. Let me help you with that. Could you provide more specific details about what you'd like me to handle?"

(***************************************************************************)
(* Bounds of the model and constants of the program.                       *)
(***************************************************************************)
NumRequests == 2

LogCapacity == 1000

MinKeyLength == 10

Requests == 1..NumRequests

PlaceholderKey == "test_key_placeholder"

VARIABLES
    openaiKey,        \* this.config.apis.openai.key
    whisprEnabled,    \* this.config.apis.whispr.enabled
    conversations,    \* this.db.conversations
    uuids,            \* how many ids uuidv4() has handed out; each is fresh
    chat,             \* per request: where its handler stands and what it holds
    sent              \* the last response of a route other than chat and voice

vars == <<openaiKey, whisprEnabled, conversations, uuids, chat, sent>>

\* A response of one of the other routes: res.json is status 200.
Reply(route, status, success) == [route |-> route, status |-> status, success |-> success]

NoReply == Reply("none", 0, FALSE)

(***************************************************************************)
(* analyzeIntent(message, context).                                        *)
(***************************************************************************)
Intent(category, confidence, action) ==
    Obj([category |-> Str(category), confidence |-> Num(confidence),
         action |-> Str(action), business |-> Str("both"),
         priority |-> Str("medium")])

\* The catch of analyzeIntent.
SyntheticIntent == Intent("general", 5, "general_assistance")

\* A slip: the test of the placeholder left out.
UnconfiguredWithoutPlaceholder(key) == ~Truthy(key)

\* !key || key === 'test_key_placeholder'
Unconfigured(key) == ~Truthy(key) \/ key = Str(PlaceholderKey)

\* A slip: the last return copied from the rules above it, confidence included.
keywordIntentDefaultAsMatch(lowerMessage) ==
    IF includes(lowerMessage, "email")
    THEN Intent("email", 7, "email_management")
    ELSE IF includes(lowerMessage, "calendar") \/ includes(lowerMessage, "schedule")
    THEN Intent("calendar", 7, "calendar_management")
    ELSE IF includes(lowerMessage, "call") \/ includes(lowerMessage, "phone")
    THEN Intent("phone", 7, "phone_assistance")
    ELSE IF includes(lowerMessage, "research") \/ includes(lowerMessage, "analyze")
    THEN Intent("research", 7, "research_task")
    ELSE IF includes(lowerMessage, "social") \/ includes(lowerMessage, "content")
    THEN Intent("social", 7, "social_media")
    ELSE IF includes(lowerMessage, "client") \/ includes(lowerMessage, "project")
    THEN Intent("client_management", 7, "client_assistance")
    ELSE IF includes(lowerMessage, "prompt") \/ includes(lowerMessage, "generate")
    THEN Intent("prompts", 7, "prompt_generation")
    ELSE IF includes(lowerMessage, "productive") \/ includes(lowerMessage, "goal")
    THEN Intent("productivity", 7, "productivity_coaching")
    ELSE Intent("general", 7, "general_assistance")

\* A slip: the call/phone rule placed before the calendar/schedule rule.
keywordIntentPhoneFirst(lowerMessage) ==
    IF includes(lowerMessage, "email")
    THEN Intent("email", 7, "email_management")
    ELSE IF includes(lowerMessage, "call") \/ includes(lowerMessage, "phone")
    THEN Intent("phone", 7, "phone_assistance")
    ELSE IF includes(lowerMessage, "calendar") \/ includes(lowerMessage, "schedule")
    THEN Intent("calendar", 7, "calendar_management")
    ELSE IF includes(lowerMessage, "research") \/ includes(lowerMessage, "analyze")
    THEN Intent("research", 7, "research_task")
    ELSE IF includes(lowerMessage, "social") \/ includes(lowerMessage, "content")
    THEN Intent("social", 7, "social_media")
    ELSE IF includes(lowerMessage, "client") \/ includes(lowerMessage, "project")
    THEN Intent("client_management", 7, "client_assistance")
    ELSE IF includes(lowerMessage, "prompt") \/ includes(lowerMessage, "generate")
    THEN Intent("prompts", 7, "prompt_generation")
    ELSE IF includes(lowerMessage, "productive") \/ includes(lowerMessage, "goal")
    THEN Intent("productivity", 7, "productivity_coaching")
    ELSE Intent("general", 6, "general_assistance")

\* A slip: the keyword 'content' answered with the category content.
keywordIntentContentCategory(lowerMessage) ==
    IF includes(lowerMessage, "email")
    THEN Intent("email", 7, "email_management")
    ELSE IF includes(lowerMessage, "calendar") \/ includes(lowerMessage, "schedule")
    THEN Intent("calendar", 7, "calendar_management")
    ELSE IF includes(lowerMessage, "call") \/ includes(lowerMessage, "phone")
    THEN Intent("phone", 7, "phone_assistance")
    ELSE IF includes(lowerMessage, "research") \/ includes(lowerMessage, "analyze")
    THEN Intent("research", 7, "research_task")
    ELSE IF includes(lowerMessage, "social")
    THEN Intent("social", 7, "social_media")
    ELSE IF includes(lowerMessage, "content")
    THEN Intent("content", 7, "content_generation")
    ELSE IF includes(lowerMessage, "client") \/ includes(lowerMessage, "project")
    THEN Intent("client_management", 7, "client_assistance")
    ELSE IF includes(lowerMessage, "prompt") \/ includes(lowerMessage, "generate")
    THEN Intent("prompts", 7, "prompt_generation")
    ELSE IF includes(lowerMessage, "productive") \/ includes(lowerMessage, "goal")
    THEN Intent("productivity", 7, "productivity_coaching")
    ELSE Intent("general", 6, "general_assistance")

\* A slip: the calendar rule tests 'schedule' alone.
keywordIntentScheduleOnly(lowerMessage) ==
    IF includes(lowerMessage, "email")
    THEN Intent("email", 7, "email_management")
    ELSE IF includes(lowerMessage, "schedule")
    THEN Intent("calendar", 7, "calendar_management")
    ELSE IF includes(lowerMessage, "call") \/ includes(lowerMessage, "phone")
    THEN Intent("phone", 7, "phone_assistance")
    ELSE IF includes(lowerMessage, "research") \/ includes(lowerMessage, "analyze")
    THEN Intent("research", 7, "research_task")
    ELSE IF includes(lowerMessage, "social") \/ includes(lowerMessage, "content")
    THEN Intent("social", 7, "social_media")
    ELSE IF includes(lowerMessage, "client") \/ includes(lowerMessage, "project")
    THEN Intent("client_management", 7, "client_assistance")
    ELSE IF includes(lowerMessage, "prompt") \/ includes(lowerMessage, "generate")
    THEN Intent("prompts", 7, "prompt_generation")
    ELSE IF includes(lowerMessage, "productive") \/ includes(lowerMessage, "goal")
    THEN Intent("productivity", 7, "productivity_coaching")
    ELSE Intent("general", 6, "general_assistance")

\* The keyword rules, on the lowercased message.
keywordIntent(lowerMessage) ==
    IF includes(lowerMessage, "email")
    THEN Intent("email", 7, "email_management")
    ELSE IF includes(lowerMessage, "calendar") \/ includes(lowerMessage, "schedule")
    THEN Intent("calendar", 7, "calendar_management")
    ELSE IF includes(lowerMessage, "call") \/ includes(lowerMessage, "phone")
    THEN Intent("phone", 7, "phone_assistance")
    ELSE IF includes(lowerMessage, "research") \/ includes(lowerMessage, "analyze")
    THEN Intent("research", 7, "research_task")
    ELSE IF includes(lowerMessage, "social") \/ includes(lowerMessage, "content")
    THEN Intent("social", 7, "social_media")
    ELSE IF includes(lowerMessage, "client") \/ includes(lowerMessage, "project")
    THEN Intent("client_management", 7, "client_assistance")
    ELSE IF includes(lowerMessage, "prompt") \/ includes(lowerMessage, "generate")
    THEN Intent("prompts", 7, "prompt_generation")
    ELSE IF includes(lowerMessage, "productive") \/ includes(lowerMessage, "goal")
    THEN Intent("productivity", 7, "productivity_coaching")
    ELSE Intent("general", 6, "general_assistance")

\* The unconfigured branch: message.toLowerCase() throws inside the try when
\* the message is not a string, and the catch answers.
fallbackIntent(message) ==
    IF message.t # "string" THEN SyntheticIntent
    ELSE keywordIntent(toLowerCase(message.s))

(***************************************************************************)
(* What the text-generation service can answer to axios.post.  axios       *)
(* rejects on a transport error and on a status outside 2xx.  The content  *)
(* of the first choice is undefined, null or a string; a string is known   *)
(* here by how JSON.parse reads it.                                        *)
(***************************************************************************)
TransportError == [k |-> "transport_error"]
HttpError == [k |-> "http_error", status |-> 500]
NoChoices == [k |-> "no_choices"]
Content(content) == [k |-> "content", content |-> content]

JsonText(doc) == [t |-> "string", doc |-> doc]
NotJson == JsonText([j |-> "invalid"])
JsonNull == JsonText([j |-> "null"])
JsonNumber == JsonText([j |-> "number", n |-> 5])
JsonObject(members) == JsonText([j |-> "object", members |-> members])

\* JSON.parse(content): the argument is converted to a string first, so null
\* reads as the text null and undefined as the text undefined, which is no JSON.
JSONParseThrows(content) ==
    \/ content.t = "undefined"
    \/ content.t = "string" /\ content.doc.j = "invalid"

JSONParse(content) ==
    CASE content.t = "null" -> Null
      [] content.doc.j = "null" -> Null
      [] content.doc.j = "number" -> Num(content.doc.n)
      [] OTHER -> Obj(content.doc.members)

\* Lines 415-437: the value analyzeIntent returns once axios.post has settled.
remoteIntent(reply) ==
    IF reply.k # "content" THEN SyntheticIntent
    ELSE IF JSONParseThrows(reply.content) THEN SyntheticIntent
    ELSE JSONParse(reply.content)

\* A slip: the catch logs the error and returns nothing.
completionTextWithoutReturn(reply) ==
    IF reply.k # "content" THEN Undefined
    ELSE reply.content

\* A slip: the first choice's message returned for its content.
completionTextReturnsMessage(reply) ==
    IF reply.k # "content" THEN Str(GeneralApology)
    ELSE Obj([role |-> Str("assistant"), content |-> reply.content])

\* Lines 460-477: the value handleGeneralRequest returns once axios.post has
\* settled.
completionText(reply) ==
    IF reply.k # "content" THEN Str(GeneralApology)
    ELSE reply.content

(***************************************************************************)
(* The switch of handleChatMessage.                                        *)
(***************************************************************************)
\* A slip: the case 'content' left out of the switch.
capabilityForWithoutContent(category) ==
    CASE category = Str("email") -> "emailManager"
      [] category = Str("calendar") -> "calendarAssistant"
      [] category = Str("phone") -> "phoneAssistant"
      [] category = Str("research") -> "researchAssistant"
      [] category = Str("social") -> "socialMediaManager"
      [] category = Str("client_management") -> "clientProjectManager"
      [] category = Str("business_intelligence") -> "businessIntelligence"
      [] category = Str("productivity") -> "lifeCoach"
      [] category = Str("prompts") -> "handlePromptRequest"
      [] OTHER -> "handleGeneralRequest"

capabilityFor(category) ==
    CASE category = Str("email") -> "emailManager"
      [] category = Str("calendar") -> "calendarAssistant"
      [] category = Str("phone") -> "phoneAssistant"
      [] category = Str("research") -> "researchAssistant"
      [] category = Str("social") -> "socialMediaManager"
      [] category = Str("client_management") -> "clientProjectManager"
      [] category = Str("business_intelligence") -> "businessIntelligence"
      [] category = Str("productivity") -> "lifeCoach"
      [] category = Str("prompts") -> "handlePromptRequest"
      [] category = Str("content") -> "handlePromptRequest"
      [] OTHER -> "handleGeneralRequest"

assistantText(capability) ==
    CASE capability = "emailManager" -> EmailManagerText
      [] capability = "calendarAssistant" -> CalendarAssistantText
      [] capability = "phoneAssistant" -> PhoneAssistantText
      [] capability = "researchAssistant" -> ResearchAssistantText
      [] capability = "socialMediaManager" -> SocialMediaManagerText
      [] capability = "clientProjectManager" -> ClientProjectManagerText
      [] capability = "businessIntelligence" -> BusinessIntelligenceText
      [] capability = "lifeCoach" -> LifeCoachText

(***************************************************************************)
(* logConversation(message, response, intent).                             *)
(***************************************************************************)
ConversationRecord(id, message, response, intent) ==
    [id |-> id, message |-> message, response |-> response, intent |-> intent,
     business |-> IF Truthy(Get(intent, "business"))
                  THEN Get(intent, "business") ELSE Str("general")]

\* slice(-n)
sliceLast(s, n) == IF Len(s) > n THEN SubSeq(s, Len(s) - n + 1, Len(s)) ELSE s

\* A slip: the push without the trim.
logConversationWithoutTrim(log, id, message, response, intent) ==
    Append(log, ConversationRecord(id, message, response, intent))

\* A slip: slice(0, 1000) for slice(-1000), which drops the newest record.
logConversationKeepOldest(log, id, message, response, intent) ==
    LET pushed == Append(log, ConversationRecord(id, message, response, intent))
    IN  IF Len(pushed) > LogCapacity THEN SubSeq(pushed, 1, LogCapacity) ELSE pushed

\* A slip: slice(-999), one record too few kept.
logConversationTrimsTwo(log, id, message, response, intent) ==
    LET pushed == Append(log, ConversationRecord(id, message, response, intent))
    IN  IF Len(pushed) > LogCapacity THEN sliceLast(pushed, LogCapacity - 1) ELSE pushed

logConversation(log, id, message, response, intent) ==
    LET pushed == Append(log, ConversationRecord(id, message, response, intent))
    IN  IF Len(pushed) > LogCapacity THEN sliceLast(pushed, LogCapacity) ELSE pushed

(***************************************************************************)
(* The envelopes of handleChatMessage.                                     *)
(***************************************************************************)
\* typeof response === 'object' ? response.response : response  throws on null.
normalizeThrows(response) == typeof(response) = "object" /\ ReadThrows(response)

\* response && response.field ? response.field : undefined
sideField(response, field) ==
    IF Truthy(response) /\ Truthy(Get(response, field))
    THEN Get(response, field) ELSE Undefined

successEnvelope(response, intent) ==
    [success |-> TRUE, status |-> 200,
     response |-> IF typeof(response) = "object"
                  THEN Get(response, "response") ELSE response,
     prompts |-> sideField(response, "prompts"),
     calendar |-> sideField(response, "calendar"),
     caption |-> sideField(response, "caption"),
     intent |-> Get(intent, "category")]

failureEnvelope ==
    [success |-> FALSE, status |-> 500, error |-> "Failed to process message",
     fallback |-> "I'm having trouble processing that request. Could you please rephrase or try again?"]

(***************************************************************************)
(* One request.  A request is a POST /api/chat (route "chat", answered on  *)
(* the express response) or a POST /api/voice/process (route "voice"),     *)
(* which calls handleChatMessage with the stub { json: () => {} }.         *)
(*   pc        idle, classifying (axios call of analyzeIntent in flight),  *)
(*             completing (axios call of handleGeneralRequest in flight),  *)
(*             returned (handleChatMessage has settled), done              *)
(*   intent    <<>> or <<the value analyzeIntent returned>>                *)
(*   response  <<>> or <<the value the capability returned>>               *)
(*   invoked   the capabilities called, in order                           *)
(*   logged    the ids of the records logConversation pushed for it        *)
(*   emitted   the payloads passed to res.json by handleChatMessage        *)
(*   threw     the capabilities whose body threw into their own catch      *)
(*   rejected  handleChatMessage threw out of its catch block              *)
(*   voiceSent the payloads processVoiceInput sent                         *)
(*   classifyCalls, completionCalls   the axios calls it has issued        *)
(*   classification, completion       <<>> or <<how that call settled>>    *)
(*   silent    the service will never answer the call in flight            *)
(***************************************************************************)
NoRequest ==
    [pc |-> "idle", route |-> "none", message |-> Undefined,
     businessContext |-> Undefined, tier |-> "none", intent |-> <<>>,
     invoked |-> <<>>, response |-> <<>>, logged |-> <<>>, emitted |-> <<>>,
     threw |-> <<>>, rejected |-> FALSE, voiceSent |-> <<>>,
     classifyCalls |-> 0, completionCalls |-> 0,
     classification |-> <<>>, completion |-> <<>>, silent |-> FALSE]

\* The running handler together with the shared state it acts on.
Running(r) == [q |-> chat[r], log |-> conversations, uuids |-> uuids]

\* Lines 280-287.  The stub handed over by processVoiceInput has no status
\* method, so on the voice route res.status(500) throws out of the catch.
catch(c) ==
    IF c.q.route = "voice"
    THEN [c EXCEPT !.q.rejected = TRUE, !.q.pc = "returned"]
    ELSE [c EXCEPT !.q.emitted = Append(@, failureEnvelope), !.q.pc = "returned"]

\* A slip: the envelope emitted without the call of logConversation.
respondWithoutLog(c, response) ==
    LET answered == [c EXCEPT !.q.response = <<response>>]
    IN  IF normalizeThrows(response) THEN catch(answered)
        ELSE [answered EXCEPT
                 !.q.emitted = Append(@, successEnvelope(response, c.q.intent[1])),
                 !.q.pc = "returned"]

\* Lines 267-278: log, then build and emit the envelope.
respond(c, response) ==
    LET intent == c.q.intent[1]
        id == c.uuids + 1
        logged == [c EXCEPT !.log = logConversation(@, id, c.q.message, response, intent),
                            !.uuids = id,
                            !.q.logged = Append(@, id),
                            !.q.response = <<response>>]
    IN  IF normalizeThrows(response) THEN catch(logged)
        ELSE [logged EXCEPT !.q.emitted = Append(@, successEnvelope(response, intent)),
                            !.q.pc = "returned"]

\* A slip: handleGeneralRequest tests only that a key is present.
dispatchWithoutPlaceholderTest(c, key) ==
    LET intent == c.q.intent[1]
    IN  IF ReadThrows(intent) THEN catch(c)
        ELSE LET capability == capabilityFor(Get(intent, "category"))
                 called == [c EXCEPT !.q.invoked = Append(@, capability)]
                 caught == IF c.q.message.t # "string"
                           THEN [called EXCEPT !.q.threw = Append(@, capability)]
                           ELSE called
             IN  CASE capability = "handlePromptRequest" ->
                        respond(caught, handlePromptRequest(c.q.message, c.q.businessContext))
                   [] capability = "handleGeneralRequest" ->
                        IF ~Truthy(key)
                        THEN respond(called, Str(UnconfiguredText(c.q.message)))
                        ELSE [called EXCEPT !.q.pc = "completing",
                                            !.q.completionCalls = @ + 1]
                   [] OTHER -> respond(called, Str(assistantText(capability)))

\* Lines 230-265, entered with the intent analyzeIntent returned.  key is
\* the credential as handleGeneralRequest reads it now.
dispatch(c, key) ==
    LET intent == c.q.intent[1]
    IN  IF ReadThrows(intent) THEN catch(c)
        ELSE LET capability == capabilityFor(Get(intent, "category"))
                 called == [c EXCEPT !.q.invoked = Append(@, capability)]
                 caught == IF c.q.message.t # "string"
                           THEN [called EXCEPT !.q.threw = Append(@, capability)]
                           ELSE called
             IN  CASE capability = "handlePromptRequest" ->
                        respond(caught, handlePromptRequest(c.q.message, c.q.businessContext))
                   [] capability = "handleGeneralRequest" ->
                        IF Unconfigured(key)
                        THEN respond(called, Str(UnconfiguredText(c.q.message)))
                        ELSE [called EXCEPT !.q.pc = "completing",
                                            !.q.completionCalls = @ + 1]
                   [] OTHER -> respond(called, Str(assistantText(capability)))

\* Lines 221-229 with analyzeIntent up to its axios call.  The template
\* literal of line 225 converts the message to a string and throws when it
\* cannot.
enter(c, key) ==
    IF ToStringThrows(c.q.message) THEN catch(c)
    ELSE IF Unconfigured(key)
    THEN dispatch([c EXCEPT !.q.tier = "fallback",
                            !.q.intent = <<fallbackIntent(c.q.message)>>],
                  key)
    ELSE [c EXCEPT !.q.tier = "remote", !.q.pc = "classifying",
                   !.q.classifyCalls = @ + 1]

transcribeAudio == "Voice transcription would be processed here"

voiceDisabledReply ==
    [success |-> FALSE, status |-> 503, error |-> "Voice processing not configured"]

voiceFailedReply ==
    [success |-> FALSE, status |-> 500, error |-> "Voice processing failed"]

voiceReply(transcription, chatResponse) ==
    [success |-> TRUE, status |-> 200, transcription |-> transcription,
     response |-> Get(chatResponse, "response")]

\* What the caller of handleChatMessage does once it has settled: express
\* does nothing more; processVoiceInput (lines 496-513) reads
\* chatResponse.response, and handleChatMessage returns no value.
settle(c) ==
    IF c.q.pc # "returned" THEN c
    ELSE IF c.q.route = "chat" THEN [c EXCEPT !.q.pc = "done"]
    ELSE LET chatResponse == Undefined
         IN  IF c.q.rejected \/ ReadThrows(chatResponse)
             THEN [c EXCEPT !.q.voiceSent = Append(@, voiceFailedReply),
                            !.q.pc = "done"]
             ELSE [c EXCEPT !.q.voiceSent =
                                Append(@, voiceReply(transcribeAudio, chatResponse)),
                            !.q.pc = "done"]

Install(r, c) ==
    /\ chat' = [chat EXCEPT ![r] = c.q]
    /\ conversations' = c.log
    /\ uuids' = c.uuids

\* A slip: a server that takes the next request only when none is in flight.
ArrivesWhenIdle(r) ==
    /\ chat[r].pc = "idle"
    /\ \A s \in Requests \ {r} : chat[s].pc \in {"idle", "done"}
    /\ \A s \in 1..(r - 1) : chat[s].pc # "idle"

\* Requests arrive in the order of their numbers.
Arrives(r) == chat[r].pc = "idle" /\ \A s \in 1..(r - 1) : chat[s].pc # "idle"

(***************************************************************************)
(* The actions.                                                            *)
(***************************************************************************)
\* POST /api/chat with req.body = body.
handleChatMessage(r, body) ==
    /\ Arrives(r)
    /\ LET c == [Running(r) EXCEPT !.q.route = "chat",
                                   !.q.message = body.message,
                                   !.q.businessContext = body.businessContext]
       IN  Install(r, settle(enter(c, openaiKey)))
    /\ UNCHANGED <<openaiKey, whisprEnabled, sent>>

\* POST /api/voice/process.
processVoiceInput(r) ==
    /\ Arrives(r)
    /\ IF ~whisprEnabled
       THEN /\ chat' = [chat EXCEPT ![r].route = "voice", ![r].pc = "done",
                                    ![r].voiceSent = Append(@, voiceDisabledReply)]
            /\ UNCHANGED <<conversations, uuids>>
       ELSE LET c == [Running(r) EXCEPT !.q.route = "voice",
                                        !.q.message = Str(transcribeAudio)]
            IN  Install(r, settle(enter(c, openaiKey)))
    /\ UNCHANGED <<openaiKey, whisprEnabled, sent>>

\* The axios call of analyzeIntent settles with reply.
classificationReturns(r, reply) ==
    /\ chat[r].pc = "classifying"
    /\ ~chat[r].silent
    /\ LET c == [Running(r) EXCEPT !.q.classification = <<reply>>,
                                   !.q.intent = <<remoteIntent(reply)>>]
       IN  Install(r, settle(dispatch(c, openaiKey)))
    /\ UNCHANGED <<openaiKey, whisprEnabled, sent>>

\* A slip: a failed completion call reissued once before the apology.
completionReturnsRetrying(r, reply) ==
    /\ chat[r].pc = "completing"
    /\ ~chat[r].silent
    /\ IF reply.k # "content" /\ chat[r].completionCalls < 2
       THEN /\ chat' = [chat EXCEPT ![r].completionCalls = @ + 1]
            /\ UNCHANGED <<conversations, uuids>>
       ELSE LET c == [Running(r) EXCEPT
                         !.q.completion = <<reply>>,
                         !.q.threw = IF reply.k # "content"
                                     THEN Append(@, "handleGeneralRequest") ELSE @]
            IN  Install(r, settle(respond(c, completionText(reply))))
    /\ UNCHANGED <<openaiKey, whisprEnabled, sent>>

\* The axios call of handleGeneralRequest settles with reply.
completionReturns(r, reply) ==
    /\ chat[r].pc = "completing"
    /\ ~chat[r].silent
    /\ LET c == [Running(r) EXCEPT
                    !.q.completion = <<reply>>,
                    !.q.threw = IF reply.k # "content"
                                THEN Append(@, "handleGeneralRequest") ELSE @]
       IN  Install(r, settle(respond(c, completionText(reply))))
    /\ UNCHANGED <<openaiKey, whisprEnabled, sent>>

\* The text-generation service goes silent on the call in flight: it sends
\* no answer and does not close the connection.  axios.post is called without
\* a timeout option (lines 415-425 and 461-471) and the default of axios is
\* no timeout, so the promise never settles and nothing else in the program
\* resumes the handler.
serviceNeverAnswers(r) ==
    /\ chat[r].pc \in {"classifying", "completing"}
    /\ ~chat[r].silent
    /\ chat' = [chat EXCEPT ![r].silent = TRUE]
    /\ UNCHANGED <<openaiKey, whisprEnabled, conversations, uuids, sent>>

\* A slip: the key stored before it is validated.
updateOpenAIConfigStoresFirst(api_key, envFails) ==
    /\ openaiKey' = api_key
    /\ sent' = IF ~Truthy(api_key) \/ Len(api_key.s) < MinKeyLength
               THEN Reply("updateOpenAIConfig", 400, FALSE)
               ELSE IF envFails THEN Reply("updateOpenAIConfig", 500, FALSE)
               ELSE Reply("updateOpenAIConfig", 200, TRUE)
    /\ UNCHANGED <<whisprEnabled, conversations, uuids, chat>>

\* POST /api/config/openai with req.body.api_key = api_key; envFails says
\* whether updateEnvFile throws.
updateOpenAIConfig(api_key, envFails) ==
    /\ IF ~Truthy(api_key) \/ Len(api_key.s) < MinKeyLength
       THEN /\ sent' = Reply("updateOpenAIConfig", 400, FALSE)
            /\ UNCHANGED openaiKey
       ELSE IF envFails
       THEN /\ sent' = Reply("updateOpenAIConfig", 500, FALSE)
            /\ UNCHANGED openaiKey
       ELSE /\ openaiKey' = api_key
            /\ sent' = Reply("updateOpenAIConfig", 200, TRUE)
    /\ UNCHANGED <<whisprEnabled, conversations, uuids, chat>>

\* POST /api/config/whispr with req.body.enabled = enabled.
updateWhisprConfig(enabled, envFails) ==
    /\ IF envFails
       THEN /\ sent' = Reply("updateWhisprConfig", 500, FALSE)
            /\ UNCHANGED whisprEnabled
       ELSE /\ whisprEnabled' = enabled
            /\ sent' = Reply("updateWhisprConfig", 200, TRUE)
    /\ UNCHANGED <<openaiKey, conversations, uuids, chat>>

\* A slip: the overview consumes the log it reports on.
getBusinessOverviewDraining ==
    /\ sent' = Reply("getBusinessOverview", 200, TRUE)
    /\ conversations' = IF conversations = <<>> THEN conversations
                        ELSE Tail(conversations)
    /\ UNCHANGED <<openaiKey, whisprEnabled, uuids, chat>>

\* GET /api/businesses: reads config.businesses, db.businessData,
\* db.projects and db.tasks.
getBusinessOverview ==
    /\ sent' = Reply("getBusinessOverview", 200, TRUE)
    /\ UNCHANGED <<openaiKey, whisprEnabled, conversations, uuids, chat>>

\* GET /api/config/status: reads the keys and flags of config.apis.
getConfigStatus ==
    /\ sent' = Reply("getConfigStatus", 200, TRUE)
    /\ UNCHANGED <<openaiKey, whisprEnabled, conversations, uuids, chat>>

\* POST /api/prompts/generate: fills the templates from req.body.
generatePrompts ==
    /\ sent' = Reply("generatePrompts", 200, TRUE)
    /\ UNCHANGED <<openaiKey, whisprEnabled, conversations, uuids, chat>>

\* POST /api/content/calendar: builds the calendar from req.body.
generateContentCalendar ==
    /\ sent' = Reply("generateContentCalendar", 200, TRUE)
    /\ UNCHANGED <<openaiKey, whisprEnabled, conversations, uuids, chat>>

\* POST /api/content/viral-caption with req.body.business and req.body.audience:
\* business.replace and audience.replace throw on a value that is no string.
generateViralCaption(business, audience) ==
    /\ sent' = IF typeof(business) = "string" /\ typeof(audience) = "string"
               THEN Reply("generateViralCaption", 200, TRUE)
               ELSE Reply("generateViralCaption", 500, FALSE)
    /\ UNCHANGED <<openaiKey, whisprEnabled, conversations, uuids, chat>>

(***************************************************************************)
(* Inputs.                                                                 *)
(***************************************************************************)
RealKey == "sk-proj-0123456789abcdef"

InitialKeys == {Undefined, Str(PlaceholderKey), Str(RealKey)}

SubmittedKeys == {Undefined, Str("sk-short"), Str(PlaceholderKey), Str(RealKey)}

Body(message, businessContext) ==
    [message |-> message, businessContext |-> businessContext]

\* {"message": {"toString": 1}}
UnprintableMessage == Obj([toString |-> Num(1)])

\* The bodies used where several requests interleave.
SomeBodies ==
    {Body(Str("I need to schedule a call"), Undefined),
     Body(Str("generate a content calendar"), Str("Acme"))}

ChatBodies ==
    SomeBodies \cup
    {Body(UnprintableMessage, Undefined),
     Body(Str(""), Undefined),
     Body(Undefined, Undefined),
     Body(Str("Plan my WEEKLY CALENDAR"), Str("Acme")),
     Body(Str("our content calendar"), Str("")),
     Body(Str("a high-end image of our office"), Undefined),
     Body(Str("write a viral caption"), Str(""))}

RemoteIntent(category) ==
    JsonObject([category |-> Str(category), confidence |-> Num(9),
                action |-> Str("do_it"), business |-> Str("agency"),
                priority |-> Str("high")])

Categories ==
    {"email", "calendar", "phone", "research", "social", "client_management",
     "business_intelligence", "productivity", "prompts", "content", "general"}

\* Every way the classification call can settle.
ClassificationReplies ==
    {TransportError, HttpError, NoChoices,
     Content(Undefined), Content(Null), Content(NotJson),
     Content(JsonNull), Content(JsonNumber),
     Content(JsonObject([confidence |-> Num(9)]))}
    \cup {Content(RemoteIntent(category)) : category \in Categories \cup {"weather"}}

\* Every way the completion call can settle.
CompletionReplies ==
    {TransportError, HttpError, NoChoices,
     Content(Str("Certainly. Here is what I suggest.")), Content(Str("")),
     Content(Null), Content(Undefined)}

\* The replies used where several requests interleave.
SomeClassificationReplies ==
    {TransportError, Content(JsonNull), Content(RemoteIntent("email")),
     Content(RemoteIntent("content"))}

SomeCompletionReplies ==
    {HttpError, Content(Str("Certainly. Here is what I suggest.")), Content(Null)}

\* Messages of up to MaxWords words, for the keyword rules.
MaxWords == 2

Vocabulary ==
    {"Email", "calendar", "SCHEDULE", "recalled", "phone", "research",
     "Analyze", "social", "content", "client", "Project", "prompt", "generate",
     "productive", "GOAL", "hello", "weekly"}

RECURSIVE Phrases(_)
Phrases(n) ==
    IF n = 0 THEN {""}
    ELSE LET shorter == Phrases(n - 1)
         IN  shorter \cup Vocabulary
                     \cup {p \o " " \o w : p \in shorter \ {""}, w \in Vocabulary}

KeywordBodies ==
    {Body(Str(m), Undefined) : m \in Phrases(MaxWords)}
    \cup {Body(Undefined, Undefined), Body(Str("I need to schedule a call"), Undefined),
          Body(Str("a prompt for my Weekly Calendar"), Str("Acme"))}

(***************************************************************************)
(* Initial states: the server has started and no request has arrived.      *)
(* The log is empty, or holds the records of n earlier requests.           *)
(***************************************************************************)
EarlierRecord(i) ==
    ConversationRecord(i, Str("hello"), Str(UnconfiguredText(Str("hello"))),
                       Intent("general", 6, "general_assistance"))

EarlierLog(n) == [i \in 1..n |-> EarlierRecord(i)]

InitWith(keys, voice, logs) ==
    /\ openaiKey \in keys
    /\ whisprEnabled \in voice
    /\ conversations \in logs
    /\ uuids = Len(conversations)
    /\ chat = [r \in Requests |-> NoRequest]
    /\ sent = NoReply

Init == InitWith(InitialKeys, BOOLEAN, {<<>>})

\* Requests that interleave at their axios calls.
Next ==
    \/ \E r \in Requests, body \in SomeBodies : handleChatMessage(r, body)
    \/ \E r \in Requests : processVoiceInput(r)
    \/ \E r \in Requests, reply \in SomeClassificationReplies :
          classificationReturns(r, reply)
    \/ \E r \in Requests, reply \in SomeCompletionReplies :
          completionReturns(r, reply)

Spec == Init /\ [][Next]_vars

\* The same requests against a log one record short of its capacity.
InitFull ==
    InitWith({Undefined, Str(RealKey)}, {TRUE}, {EarlierLog(LogCapacity - 1)})

NextFull ==
    \/ \E r \in Requests :
          handleChatMessage(r, Body(Str("I need to schedule a call"), Undefined))
    \/ \E r \in Requests : processVoiceInput(r)
    \/ \E r \in Requests, reply \in {TransportError, Content(RemoteIntent("email"))} :
          classificationReturns(r, reply)
    \/ \E r \in Requests, reply \in {HttpError, Content(Null)} :
          completionReturns(r, reply)

SpecFull == InitFull /\ [][NextFull]_vars

\* One request, over every body and every way its axios calls can settle.
NextDispatch ==
    \/ \E body \in ChatBodies : handleChatMessage(1, body)
    \/ processVoiceInput(1)
    \/ \E reply \in ClassificationReplies : classificationReturns(1, reply)
    \/ \E reply \in CompletionReplies : completionReturns(1, reply)
    \/ \E api_key \in SubmittedKeys, envFails \in BOOLEAN :
          updateOpenAIConfig(api_key, envFails)

SpecDispatch == Init /\ [][NextDispatch]_vars

\* One request among the other routes of the server, against an empty log
\* and against a log at its capacity.
InitRoutes ==
    InitWith(InitialKeys, BOOLEAN, {<<>>, EarlierLog(LogCapacity)})

NextRoutes ==
    \/ \E body \in SomeBodies : handleChatMessage(1, body)
    \/ processVoiceInput(1)
    \/ \E reply \in {TransportError, Content(RemoteIntent("content"))} :
          classificationReturns(1, reply)
    \/ \E reply \in {HttpError, Content(Null)} : completionReturns(1, reply)
    \/ \E api_key \in SubmittedKeys, envFails \in BOOLEAN :
          updateOpenAIConfig(api_key, envFails)
    \/ \E enabled \in BOOLEAN, envFails \in BOOLEAN :
          updateWhisprConfig(enabled, envFails)
    \/ getBusinessOverview
    \/ getConfigStatus
    \/ generatePrompts
    \/ generateContentCalendar
    \/ \E business \in {Undefined, Str("Acme")} :
          generateViralCaption(business, Str("founders"))

SpecRoutes == InitRoutes /\ [][NextRoutes]_vars

\* Requests against a service that may go silent.  An answer the service
\* sends is delivered, and the event loop then runs the handler that awaits
\* it: weak fairness of the two continuations, for each request.
NextLive ==
    \/ \E r \in Requests, body \in SomeBodies : handleChatMessage(r, body)
    \/ \E r \in Requests, reply \in SomeClassificationReplies :
          classificationReturns(r, reply)
    \/ \E r \in Requests, reply \in SomeCompletionReplies :
          completionReturns(r, reply)
    \/ \E r \in Requests : serviceNeverAnswers(r)

SpecLive ==
    /\ InitWith(InitialKeys, {FALSE}, {<<>>})
    /\ [][NextLive]_vars
    /\ \A r \in Requests :
          /\ WF_vars(\E reply \in SomeClassificationReplies : classificationReturns(r, reply))
          /\ WF_vars(\E reply \in SomeCompletionReplies : completionReturns(r, reply))

\* One request under the keyword rules: no credential is configured.
InitFallback ==
    InitWith({Undefined, Str(""), Str(PlaceholderKey)}, {FALSE}, {<<>>})

NextFallback == \E body \in KeywordBodies : handleChatMessage(1, body)

SpecFallback == InitFallback /\ [][NextFallback]_vars

(***************************************************************************)
(* The properties checked.                                                 *)
(***************************************************************************)
\* handleChatMessage ran for request r and has settled.
Handled(r) ==
    /\ chat[r].pc = "done"
    /\ chat[r].route = "chat" \/ chat[r].voiceSent # <<voiceDisabledReply>>

EmittedFailure(r) ==
    \E i \in 1..Len(chat[r].emitted) : ~chat[r].emitted[i].success

EmittedSuccess(r) ==
    \E i \in 1..Len(chat[r].emitted) : chat[r].emitted[i].success

\* C1: every request handled by handleChatMessage has, once it has finished,
\* obtained exactly one Intent and appended exactly one ConversationRecord.
C1_OneIntentOneRecord ==
    \A r \in Requests :
        Handled(r) => Len(chat[r].intent) = 1 /\ Len(chat[r].logged) = 1

\* C2: db.conversations never holds more than 1000 records.
C2_LogBounded == Len(conversations) <= LogCapacity

\* A request has appended to a full log and the oldest record is gone.
C2_Witness ==
    /\ Len(conversations) = LogCapacity
    /\ conversations[1].id > 1
    /\ \E r \in Requests : chat[r].logged # <<>>

\* C3: a request that ends with the failure envelope has appended nothing to
\* the conversation log.
C3_FailureAppendsNothing ==
    \A r \in Requests : EmittedFailure(r) => chat[r].logged = <<>>

\* C4: handleChatMessage never throws or rejects to its caller, whoever the
\* caller is.
C4_NeverRejects == \A r \in Requests : ~chat[r].rejected

\* The classification call settled with a transport error, a status outside
\* 2xx, no payload (no choice, or a content that is absent or null), or a
\* payload that is no JSON.
ClassificationFailed(reply) ==
    \/ reply.k \in {"transport_error", "http_error", "no_choices"}
    \/ /\ reply.k = "content"
       /\ \/ reply.content.t \in {"undefined", "null"}
          \/ reply.content.t = "string" /\ reply.content.doc.j = "invalid"

\* C5: when the classification call fails in one of these ways analyzeIntent
\* returns, and what it returns is exactly {category: general, confidence:
\* 0.5, action: general_assistance, business: both, priority: medium}.
C5_SyntheticIntentOnFailure ==
    \A r \in Requests :
        (chat[r].classification # <<>> /\ ClassificationFailed(chat[r].classification[1]))
        => chat[r].intent =
              <<Obj([category |-> Str("general"), confidence |-> Num(5),
                     action |-> Str("general_assistance"),
                     business |-> Str("both"), priority |-> Str("medium")])>>

CapabilityTable ==
    [email |-> "emailManager", calendar |-> "calendarAssistant",
     phone |-> "phoneAssistant", research |-> "researchAssistant",
     social |-> "socialMediaManager",
     client_management |-> "clientProjectManager",
     business_intelligence |-> "businessIntelligence",
     productivity |-> "lifeCoach", prompts |-> "handlePromptRequest",
     content |-> "handlePromptRequest", general |-> "handleGeneralRequest"]

TableCapability(category) ==
    IF category.t = "string" /\ category.s \in DOMAIN CapabilityTable
    THEN CapabilityTable[category.s]
    ELSE "handleGeneralRequest"

\* C7: for every Intent classification returns, dispatch invokes exactly
\* one capability, the one the table gives for Intent.category; a category
\* outside the table, or none, goes to the general capability.
C7_TableDispatch ==
    \A r \in Requests :
        (chat[r].intent # <<>> /\ ~ReadThrows(chat[r].intent[1]))
        => chat[r].invoked = <<TableCapability(Get(chat[r].intent[1], "category"))>>

\* 'content' has gone to handlePromptRequest.
C7_Witness ==
    \E r \in Requests :
        /\ chat[r].pc = "done"
        /\ chat[r].intent # <<>>
        /\ Get(chat[r].intent[1], "category") = Str("content")
        /\ chat[r].invoked = <<"handlePromptRequest">>

\* C8: every capability output is normalized without raising: the envelope
\* is the success envelope, its response is the output itself for a text
\* and the output's response field for a structured payload, and prompts,
\* calendar and caption are present exactly when the payload carries them.
C8_Normalized ==
    \A r \in Requests :
        (chat[r].pc = "done" /\ chat[r].response # <<>>)
        => LET out == chat[r].response[1]
               Carried(field) ==
                   IF out.t = "object" /\ field \in DOMAIN out.f
                   THEN out.f[field] ELSE Undefined
           IN  /\ Len(chat[r].emitted) = 1
               /\ chat[r].emitted[1].success
               /\ out.t = "string" => chat[r].emitted[1].response = out
               /\ out.t = "object" => chat[r].emitted[1].response = out.f.response
               /\ chat[r].emitted[1].prompts = Carried("prompts")
               /\ chat[r].emitted[1].calendar = Carried("calendar")
               /\ chat[r].emitted[1].caption = Carried("caption")

\* Request r emits the success envelope in this step.
EmitsSuccess(r) ==
    /\ Len(chat'[r].emitted) = Len(chat[r].emitted) + 1
    /\ chat'[r].emitted[Len(chat'[r].emitted)].success

\* C9: when a request emits the success envelope its ConversationRecord is
\* already the newest record of the log, that record holds the message, the
\* capability output and the Intent of this request, and the envelope's
\* intent is the category of the Intent in the record.
C9_RecordThenEnvelope ==
    [][\A r \in Requests :
          EmitsSuccess(r) =>
             /\ Len(conversations') > 0
             /\ LET rec == conversations'[Len(conversations')]
                    env == chat'[r].emitted[Len(chat'[r].emitted)]
                IN  /\ uuids' = uuids + 1
                    /\ rec.id = uuids'
                    /\ chat'[r].logged = <<rec.id>>
                    /\ rec.message = chat'[r].message
                    /\ <<rec.response>> = chat'[r].response
                    /\ <<rec.intent>> = chat'[r].intent
                    /\ env.intent = Get(rec.intent, "category")]_vars

\* A request has emitted the success envelope after a remote completion,
\* while the record of another request is in the log too.
C9_Witness ==
    \E r \in Requests :
        /\ EmittedSuccess(r)
        /\ chat[r].completion # <<>>
        /\ Len(conversations) = 2
        /\ conversations[Len(conversations)].id = chat[r].logged[1]

\* The keyword sets in the order of C10, each with its category.
KeywordOrder ==
    <<[category |-> "email", keywords |-> {"email"}],
      [category |-> "calendar", keywords |-> {"calendar", "schedule"}],
      [category |-> "phone", keywords |-> {"call", "phone"}],
      [category |-> "research", keywords |-> {"research", "analyze"}],
      [category |-> "social", keywords |-> {"social", "content"}],
      [category |-> "client_management", keywords |-> {"client", "project"}],
      [category |-> "prompts", keywords |-> {"prompt", "generate"}],
      [category |-> "productivity", keywords |-> {"productive", "goal"}]>>

\* keyword occurs in text as a substring, letter case ignored.
OccursIn(keyword, text) ==
    \E i \in 0..(Len(text) - Len(keyword)) :
        \A j \in 1..Len(keyword) :
            LowerOf(SubSeq(text, i + j, i + j)) = SubSeq(keyword, j, j)

FirstMatch(text) ==
    LET hits == {i \in DOMAIN KeywordOrder :
                    \E k \in KeywordOrder[i].keywords : OccursIn(k, text)}
    IN  IF hits = {} THEN "general"
        ELSE KeywordOrder[CHOOSE i \in hits : \A j \in hits : i <= j].category

\* C10: with no credential configured the category analyzeIntent returns is
\* that of the first keyword set, in the order email, calendar/schedule,
\* call/phone, research/analyze, social/content, client/project,
\* prompt/generate, productive/goal, with a keyword occurring in the message
\* whatever its letter case, and general when there is none; a message
\* classified calendar is answered with the calendar capability's text.
C10_KeywordPrecedence ==
    \A r \in Requests :
        (chat[r].tier = "fallback" /\ chat[r].message.t = "string")
        => /\ Get(chat[r].intent[1], "category") = Str(FirstMatch(chat[r].message.s))
           /\ FirstMatch(chat[r].message.s) = "calendar"
              => /\ Len(chat[r].emitted) = 1
                 /\ chat[r].emitted[1].success
                 /\ chat[r].emitted[1].response = Str(CalendarAssistantText)
                 /\ chat[r].emitted[1].intent = Str("calendar")

\* "I need to schedule a call" has been answered by the calendar capability.
C10_Witness ==
    \E r \in Requests :
        /\ chat[r].pc = "done"
        /\ chat[r].tier = "fallback"
        /\ chat[r].message = Str("I need to schedule a call")
        /\ chat[r].intent = <<Intent("calendar", 7, "calendar_management")>>
        /\ chat[r].emitted[1].response = Str(CalendarAssistantText)

\* C11: with no credential configured, a text message that matches a keyword
\* gets confidence 0.7, business both and priority medium, and one that
\* matches none gets category general and confidence 0.6; the keyword rules
\* return no other confidence.
C11_FallbackConfidence ==
    \A r \in Requests :
        (chat[r].tier = "fallback" /\ chat[r].message.t = "string")
        => LET intent == chat[r].intent[1]
               matches == FirstMatch(chat[r].message.s) # "general"
           IN  /\ matches => /\ Get(intent, "confidence") = Num(7)
                             /\ Get(intent, "business") = Str("both")
                             /\ Get(intent, "priority") = Str("medium")
               /\ ~matches => /\ Get(intent, "category") = Str("general")
                              /\ Get(intent, "confidence") = Num(6)

\* A message without any keyword has been classified.
C11_Witness ==
    \E r \in Requests :
        /\ chat[r].pc = "done"
        /\ chat[r].tier = "fallback"
        /\ chat[r].message = Str("hello hello")
        /\ Get(chat[r].intent[1], "confidence") = Num(6)

\* The output the content-generation capability returned for request r.
PromptOutput(r) == chat[r].response[1]

RanPromptRequest(r) ==
    /\ chat[r].invoked = <<"handlePromptRequest">>
    /\ chat[r].response # <<>>

\* C12: for a message containing both 'content calendar' and 'generate' and
\* a business context B, handlePromptRequest returns a structured payload
\* whose calendar has exactly 5 entries, each with a non-empty postIdea that
\* contains B.
C12_GenerateContentCalendar ==
    \A r \in Requests :
        (/\ RanPromptRequest(r)
         /\ chat[r].message.t = "string"
         /\ OccursIn("content calendar", chat[r].message.s)
         /\ OccursIn("generate", chat[r].message.s)
         /\ chat[r].businessContext.t = "string"
         /\ chat[r].businessContext.s # "")
        => /\ PromptOutput(r).t = "object"
           /\ "calendar" \in DOMAIN PromptOutput(r).f
           /\ LET calendar == PromptOutput(r).f.calendar.items
              IN  /\ Len(calendar) = 5
                  /\ \A i \in 1..Len(calendar) :
                        /\ calendar[i].postIdea # ""
                        /\ includes(calendar[i].postIdea, chat[r].businessContext.s)

\* The classification of request r did not name a category other than
\* general: the keyword rules ran, or the remote call failed, or it answered
\* general.
ClassifiedByDefault(r) ==
    \/ chat[r].tier = "fallback"
    \/ /\ chat[r].classification # <<>>
       /\ \/ ClassificationFailed(chat[r].classification[1])
          \/ chat[r].classification[1] = Content(RemoteIntent("general"))

\* C13: a chat request with the empty message does not throw: its Intent is
\* general, the success envelope carries the text of the general capability
\* (the canned text without a credential, else the completion or the
\* apology), and one record is appended.
C13_EmptyMessage ==
    \A r \in Requests :
        (/\ chat[r].pc = "done"
         /\ chat[r].route = "chat"
         /\ chat[r].message = Str("")
         /\ ClassifiedByDefault(r))
        => /\ Len(chat[r].intent) = 1
           /\ ~ReadThrows(chat[r].intent[1])
           /\ Get(chat[r].intent[1], "category") = Str("general")
           /\ chat[r].invoked = <<"handleGeneralRequest">>
           /\ Len(chat[r].emitted) = 1
           /\ chat[r].emitted[1].success
           /\ chat[r].emitted[1].response.t = "string"
           /\ chat[r].completion = <<>>
              => chat[r].emitted[1].response.s =
                    "I understand you need assistance with: \"\". As your executive assistant for Molaison Agency and Molaison AI, I'm ready to help with business management, client projects, and various tasks. However, advanced AI features require API configuration. Please let me know what specific assistance you need!"
           /\ Len(chat[r].logged) = 1

\* The number of records of the log after n appends.
Kept(n) == IF n < LogCapacity THEN n ELSE LogCapacity

\* C14: with requests interleaved at their remote calls no record is lost or
\* duplicated: after n appends the log is the last min(n, 1000) records
\* appended, in the order of their appends, and each request's record is in
\* it at most once, with that request's message, output and Intent.
C14_NoRecordLostOrDuplicated ==
    /\ Len(conversations) = Kept(uuids)
    /\ \A i \in 1..Len(conversations) :
          conversations[i].id = uuids - Kept(uuids) + i
    /\ \A r \in Requests :
          /\ Len(chat[r].logged) <= 1
          /\ \A s \in Requests \ {r} :
                chat[r].logged = <<>> \/ chat[r].logged # chat[s].logged
          /\ (chat[r].logged # <<>> /\ chat[r].logged[1] > uuids - Kept(uuids))
             => LET rec == conversations[chat[r].logged[1] - (uuids - Kept(uuids))]
                IN  /\ rec.id = chat[r].logged[1]
                    /\ rec.message = chat[r].message
                    /\ <<rec.response>> = chat[r].response
                    /\ <<rec.intent>> = chat[r].intent

\* Two requests were in flight at once and the later one appended first;
\* both records are in the log, which is full.
C14_Witness ==
    /\ \A r \in Requests : chat[r].pc = "done"
    /\ chat[1].classifyCalls = 1
    /\ chat[2].logged # <<>>
    /\ chat[1].logged # <<>>
    /\ chat[2].logged[1] < chat[1].logged[1]
    /\ Len(conversations) = LogCapacity
    /\ conversations[LogCapacity].id = chat[1].logged[1]
    /\ conversations[LogCapacity - 1].id = chat[2].logged[1]

\* Request r has emitted an envelope, of success or of failure.
Answered(r) == chat[r].emitted # <<>>

\* C15: every chat request eventually emits a response envelope, also when
\* the text-generation service never answers a call.
C15_EventuallyAnswered ==
    \A r \in Requests : (chat[r].route = "chat") ~> Answered(r)

\* C16: when the log holds exactly 1000 records and one more is appended,
\* the log has 1000 records again, the oldest is gone, the other 999 keep
\* their order and the new record is last.
C16_EvictsOldest ==
    [][(Len(conversations) = LogCapacity /\ uuids' # uuids)
       => /\ Len(conversations') = LogCapacity
          /\ \A i \in 1..(LogCapacity - 1) : conversations'[i] = conversations[i + 1]
          /\ conversations'[LogCapacity].id = uuids'
          /\ \A i \in 1..LogCapacity : conversations'[i].id # conversations[1].id]_vars

\* The 1001st record has been appended: the record with id 1 is gone.
C16_Witness ==
    /\ uuids = LogCapacity + 1
    /\ Len(conversations) = LogCapacity
    /\ conversations[1].id = 2
    /\ conversations[LogCapacity].id = LogCapacity + 1

IntentCategories ==
    {"email", "calendar", "phone", "research", "social", "client_management",
     "business_intelligence", "productivity", "prompts", "content", "general"}

IntentBusinesses == {"agency", "ai", "both", "client"}

IntentPriorities == {"low", "medium", "high", "urgent"}

\* v is a string, one of those in values.
OneOf(v, values) == v.t = "string" /\ v.s \in values

\* C17: every Intent analyzeIntent returns, in either tier, is a structure
\* whose category is one of the enumerated values, whose business is one of
\* agency, ai, both, client and whose priority is one of low, medium, high,
\* urgent, whatever the remote service answered.
C17_IntentWellFormed ==
    \A r \in Requests :
        chat[r].intent # <<>>
        => LET intent == chat[r].intent[1]
           IN  /\ intent.t = "object"
               /\ OneOf(Get(intent, "category"), IntentCategories)
               /\ OneOf(Get(intent, "business"), IntentBusinesses)
               /\ OneOf(Get(intent, "priority"), IntentPriorities)

\* The business context handlePromptRequest is to interpolate for request r:
\* the one supplied, or 'your business' when it is absent or empty.
ContextOrDefault(r) ==
    IF chat[r].businessContext.t = "string" /\ chat[r].businessContext.s # ""
    THEN chat[r].businessContext.s
    ELSE "your business"

\* C18: in every output of handlePromptRequest the response line, each of
\* the 5 image prompts and each calendar entry's postIdea interpolate the
\* supplied business context, or 'your business' when it is absent or
\* empty, and no other default.
C18_DefaultBusinessContext ==
    \A r \in Requests :
        (RanPromptRequest(r) /\ PromptOutput(r).t = "object")
        => LET out == PromptOutput(r).f
           IN  /\ includes(out.response.s, ContextOrDefault(r))
               /\ "prompts" \in DOMAIN out
                  => \A i \in 1..Len(out.prompts.items) :
                        includes(out.prompts.items[i], ContextOrDefault(r))
               /\ "calendar" \in DOMAIN out
                  => \A i \in 1..Len(out.calendar.items) :
                        includes(out.calendar.items[i].postIdea, ContextOrDefault(r))

\* analyzeIntent runs for request r in this step: handleChatMessage is
\* entered, from either route, with a message its first line can print.
AnalyzeIntentRuns(r) ==
    /\ chat[r].pc = "idle"
    /\ chat'[r].pc # "idle"
    /\ chat'[r].route = "chat" \/ (chat'[r].route = "voice" /\ whisprEnabled)
    /\ ~ToStringThrows(chat'[r].message)

\* C19: when the credential is absent, empty or 'test_key_placeholder' at
\* the time analyzeIntent runs, no call to the text-generation service is
\* issued and the Intent is the result of the keyword rules.
C19_NoCallWithoutCredential ==
    [][\A r \in Requests :
          (/\ AnalyzeIntentRuns(r)
           /\ \/ openaiKey \in {Undefined, Null, Str("")}
              \/ openaiKey = Str("test_key_placeholder"))
          => /\ chat'[r].classifyCalls = 0
             /\ chat'[r].completionCalls = 0
             /\ chat'[r].pc = "done"
             /\ Len(chat'[r].intent) = 1
             /\ chat'[r].message.t = "string"
                => /\ Get(chat'[r].intent[1], "category")
                         = Str(FirstMatch(chat'[r].message.s))
                   /\ Get(chat'[r].intent[1], "confidence") \in {Num(6), Num(7)}]_vars

\* A request has been classified while the credential was the placeholder.
C19_Witness ==
    \E r \in Requests :
        /\ openaiKey = Str("test_key_placeholder")
        /\ chat[r].pc = "done"
        /\ chat[r].intent = <<Intent("calendar", 7, "calendar_management")>>
        /\ chat[r].classifyCalls = 0
        /\ chat[r].invoked = <<"calendarAssistant">>

WeekDays == <<"Monday", "Tuesday", "Wednesday", "Thursday", "Friday">>

\* out is a payload with exactly 5 image-prompt strings and no calendar.
IsImagePrompts(out) ==
    /\ out.t = "object"
    /\ "prompts" \in DOMAIN out.f
    /\ "calendar" \notin DOMAIN out.f
    /\ Len(out.f.prompts.items) = 5
    /\ \A i \in 1..5 : Len(out.f.prompts.items[i]) > 0

\* out is a payload with a Monday-to-Friday calendar and no prompts.
IsWeekCalendar(out) ==
    /\ out.t = "object"
    /\ "calendar" \in DOMAIN out.f
    /\ "prompts" \notin DOMAIN out.f
    /\ Len(out.f.calendar.items) = 5
    /\ \A i \in 1..5 :
          LET entry == out.f.calendar.items[i]
          IN  /\ DOMAIN entry = {"day", "theme", "content", "postIdea", "optimalTime"}
              /\ entry.day = WeekDays[i]
              /\ \A field \in DOMAIN entry : Len(entry[field]) > 0

\* C20: handlePromptRequest issues no classification call and no network
\* call, and its outcome follows ordered substring rules on the lowercased
\* message: 'image prompt', 'high-end image' or 'generate' gives 5 image
\* prompts; otherwise 'content calendar' or 'weekly calendar' gives the
\* 5-entry Monday-to-Friday calendar; otherwise the clarifying question as
\* plain text.
C20_PromptSubDispatch ==
    \A r \in Requests :
        RanPromptRequest(r)
        => /\ chat[r].completionCalls = 0
           /\ chat[r].classifyCalls = IF chat[r].tier = "remote" THEN 1 ELSE 0
           /\ LET text == IF chat[r].message.t = "string" THEN chat[r].message.s ELSE ""
                  out == PromptOutput(r)
              IN  IF \/ OccursIn("image prompt", text)
                     \/ OccursIn("high-end image", text)
                     \/ OccursIn("generate", text)
                  THEN IsImagePrompts(out)
                  ELSE IF \/ OccursIn("content calendar", text)
                          \/ OccursIn("weekly calendar", text)
                  THEN IsWeekCalendar(out)
                  ELSE out = Str("I can help you with AI prompt generation, content calendars, and viral captions. What specific type of content would you like me to create?")

\* Each of the three outcomes: this one is the calendar, for a message in
\* capitals.
C20_Witness ==
    \E r \in Requests :
        /\ chat[r].pc = "done"
        /\ chat[r].message = Str("Plan my WEEKLY CALENDAR")
        /\ RanPromptRequest(r)
        /\ IsWeekCalendar(PromptOutput(r))
        /\ chat[r].emitted[1].calendar = PromptOutput(r).f.calendar

\* handleGeneralRequest is called for request r in this step.
GeneralRequestStarts(r) ==
    chat'[r].invoked = Append(chat[r].invoked, "handleGeneralRequest")

\* The completion call of request r settles in this step.
CompletionSettles(r) ==
    chat[r].pc = "completing" /\ chat'[r].pc # "completing"

\* C21: handleGeneralRequest never raises and always returns a value: with
\* the credential absent or the placeholder it returns the canned message
\* and issues no completion call; with a credential it issues one completion
\* call and returns the text of the answer, or the fixed apology when the
\* call fails.
C21_GeneralTwoLevelDefault ==
    [][\A r \in Requests :
          /\ GeneralRequestStarts(r)
             => IF openaiKey \in {Undefined, Null, Str("")}
                   \/ openaiKey = Str("test_key_placeholder")
                THEN /\ chat'[r].completionCalls = 0
                     /\ chat'[r].response =
                           <<Str("I understand you need assistance with: \""
                                 \o stringOf(chat'[r].message)
                                 \o "\". As your executive assistant for Molaison Agency and Molaison AI, I'm ready to help with business management, client projects, and various tasks. However, advanced AI features require API configuration. Please let me know what specific assistance you need!")>>
                ELSE /\ chat'[r].completionCalls = 1
                     /\ chat'[r].pc = "completing"
                     /\ chat'[r].response = <<>>
          /\ CompletionSettles(r)
             => /\ chat'[r].completionCalls = 1
                /\ Len(chat'[r].completion) = 1
                /\ chat'[r].response =
                      <<IF chat'[r].completion[1].k = "content"
                        THEN chat'[r].completion[1].content
                        ELSE Str("I understand you need assistance. Let me help you with that. Could you provide more specific details about what you'd like me to handle?")>>]_vars

\* A completion call has been answered and its text returned.
C21_Witness ==
    \E r \in Requests :
        /\ chat[r].pc = "done"
        /\ chat[r].completionCalls = 1
        /\ chat[r].completion = <<Content(Str("Certainly. Here is what I suggest."))>>
        /\ chat[r].response = <<Str("Certainly. Here is what I suggest.")>>
        /\ chat[r].emitted[1].response = Str("Certainly. Here is what I suggest.")

\* C22: no remote call is retried: a request issues at most one
\* classification call and at most one completion call, and once a call has
\* settled, whether it failed or not, the request does not wait on that
\* call again.
C22_NoRetry ==
    \A r \in Requests :
        /\ chat[r].classifyCalls <= 1
        /\ chat[r].completionCalls <= 1
        /\ chat[r].classification # <<>> => chat[r].pc # "classifying"
        /\ chat[r].completion # <<>> => chat[r].pc # "completing"
        /\ chat[r].pc = "classifying" => chat[r].classifyCalls = 1
        /\ chat[r].pc = "completing" => chat[r].completionCalls = 1

\* Both calls of a request have failed and the request has finished.
C22_Witness ==
    \E r \in Requests :
        /\ chat[r].pc = "done"
        /\ chat[r].classification = <<TransportError>>
        /\ chat[r].completion = <<HttpError>>
        /\ chat[r].classifyCalls = 1
        /\ chat[r].completionCalls = 1

\* Request r waits on one of its remote calls.
Suspended(r) == chat[r].pc \in {"classifying", "completing"}

\* C23: a request suspended on its remote call does not block the others:
\* while request a waits, the next request can be taken, and a request b
\* whose own call is answered can go on to be dispatched, logged and
\* answered.
C23_SuspendedDoesNotBlock ==
    \A a \in Requests : \A b \in Requests \ {a} :
        Suspended(a)
        => /\ (chat[b].pc = "idle" /\ \A s \in 1..(b - 1) : chat[s].pc # "idle")
              => ENABLED handleChatMessage(b, Body(Str(""), Undefined))
           /\ (chat[b].pc = "classifying" /\ ~chat[b].silent)
              => ENABLED classificationReturns(b, Content(RemoteIntent("email")))
           /\ (chat[b].pc = "completing" /\ ~chat[b].silent)
              => ENABLED completionReturns(b, HttpError)

\* Request 1 still waits for its classification while request 2, which
\* arrived later, has been classified, logged and answered.
C23_Witness ==
    /\ chat[1].pc = "classifying"
    /\ chat[2].pc = "done"
    /\ chat[2].classifyCalls = 1
    /\ EmittedSuccess(2)
    /\ Len(conversations) = 1
    /\ conversations[1].id = chat[2].logged[1]
    /\ conversations[1].message = chat[2].message

\* The step in which request r appends its record: logConversation has run
\* once more for it, with a fresh id.
Appends(r) ==
    /\ uuids' = uuids + 1
    /\ chat'[r].logged = Append(chat[r].logged, uuids')
    /\ \A s \in Requests \ {r} : chat'[s].logged = chat[s].logged

\* The new log is the old one, less k records at its front, and one record.
AppendedTo(old, new, k) ==
    /\ Len(new) = Len(old) - k + 1
    /\ \A i \in 1..(Len(new) - 1) : new[i] = old[i + k]

\* C24: db.conversations changes only in the step of a request that appends
\* its record; every other step (a classification that leads to the
\* completion call, a configuration update, the overview, the prompt,
\* calendar and caption endpoints, a voice request with voice disabled)
\* leaves it as it is.  The changed log holds the records of the old one
\* unmodified and in order, less at most the first, and the new record last.
C24_LogChangedOnlyByAppend ==
    [][/\ conversations' # conversations
          => \E r \in Requests :
                /\ Appends(r)
                /\ \E k \in {0, 1} : AppendedTo(conversations, conversations', k)
                /\ conversations'[Len(conversations')].id = uuids'
                /\ conversations'[Len(conversations')].message = chat'[r].message
       /\ sent' # sent => conversations' = conversations
       /\ \A r \in Requests :
             /\ chat'[r].pc = "completing" => conversations' = conversations
             /\ chat'[r].voiceSent = Append(chat[r].voiceSent, voiceDisabledReply)
                => conversations' = conversations]_vars

C24_Witness ==
    /\ sent = Reply("updateOpenAIConfig", 200, TRUE)
    /\ chat[1].pc = "done"
    /\ chat[1].logged = <<LogCapacity + 1>>
    /\ Len(conversations) = LogCapacity
    /\ conversations[1] = EarlierRecord(2)
    /\ conversations[LogCapacity].id = LogCapacity + 1

\* Request r is a chat request whose handler is where the order of the three
\* stages requires it to be: no capability before the intent, no envelope
\* before the capability's value or a caught exception, at most one envelope.
InOrder(r) ==
    /\ chat[r].invoked # <<>> => chat[r].intent # <<>>
    /\ chat[r].tier = "remote" /\ chat[r].intent # <<>> => chat[r].classification # <<>>
    /\ chat[r].pc = "classifying" => chat[r].invoked = <<>> /\ chat[r].emitted = <<>>
    /\ chat[r].pc = "completing" => chat[r].response = <<>> /\ chat[r].emitted = <<>>
    /\ EmittedSuccess(r) => chat[r].invoked # <<>> /\ chat[r].response # <<>>
    /\ Len(chat[r].invoked) <= 1
    /\ Len(chat[r].emitted) <= 1
    /\ chat[r].pc = "done" => Len(chat[r].emitted) = 1

ChatRequestsInOrder ==
    \A r \in Requests : chat[r].route = "chat" => InOrder(r)

\* C25: every chat request goes through classification, dispatch and response
\* in that order and reaches the response exactly once: no capability is
\* invoked before the classification has returned, no envelope is emitted
\* before the capability has returned or an exception was caught, and the
\* request emits exactly one envelope.
C25_ClassifyDispatchRespondOnce ==
    /\ []ChatRequestsInOrder
    /\ \A r \in Requests :
          (chat[r].route = "chat") ~> (chat[r].pc = "done" /\ Len(chat[r].emitted) = 1)

\* The credential selects the keyword rules: it is absent, empty or the
\* placeholder.
KeywordTier(key) ==
    \/ key \in {Undefined, Null, Str("")}
    \/ key = Str("test_key_placeholder")

\* The key submitted is missing or shorter than 10 characters.
Rejected(api_key) ==
    \/ api_key \in {Undefined, Null, Str("")}
    \/ api_key.t = "string" /\ Len(api_key.s) < 10

\* C26: the classifier tier follows the credential as updated at run time.
\* An update with a missing key or one shorter than 10 characters answers 400
\* and leaves the credential, and so the tier, as they were; an update that
\* succeeds stores the key it was given, the placeholder included; the
\* credential changes in no other step; and a request that starts uses the
\* remote classifier unless the credential then stored is absent, empty or
\* the placeholder.
C26_TierFollowsCredential ==
    [][/\ \A api_key \in SubmittedKeys, envFails \in BOOLEAN :
             updateOpenAIConfig(api_key, envFails)
             => /\ Rejected(api_key)
                   => /\ sent' = Reply("updateOpenAIConfig", 400, FALSE)
                      /\ openaiKey' = openaiKey
                /\ sent' = Reply("updateOpenAIConfig", 200, TRUE)
                   => /\ openaiKey' = api_key
                      /\ KeywordTier(openaiKey') <=> api_key = Str("test_key_placeholder")
                /\ chat' = chat
       /\ openaiKey' # openaiKey
          => /\ sent' = Reply("updateOpenAIConfig", 200, TRUE)
             /\ ~Rejected(openaiKey')
       /\ \A r \in Requests :
             AnalyzeIntentRuns(r)
             => /\ KeywordTier(openaiKey)
                   => chat'[r].tier = "fallback" /\ chat'[r].classifyCalls = 0
                /\ ~KeywordTier(openaiKey)
                   => /\ chat'[r].tier = "remote"
                      /\ chat'[r].classifyCalls = 1
                      /\ chat'[r].pc = "classifying"]_vars

\* An update has stored the placeholder and the request was classified by the
\* keyword rules.
C26_Witness ==
    /\ sent = Reply("updateOpenAIConfig", 200, TRUE)
    /\ openaiKey = Str("test_key_placeholder")
    /\ chat[1].pc = "done"
    /\ chat[1].route = "chat"
    /\ chat[1].tier = "fallback"
    /\ chat[1].classifyCalls = 0

\* C27: the two reads of the credential within one chat request agree,
\* whatever updateOpenAIConfig does around it: a request classified by the
\* keyword rules issues no call to the text-generation service, and when its
\* capability is the general one, the value returned is the canned text for
\* a server without a credential.
C27_CredentialReadsAgree ==
    \A r \in Requests :
        chat[r].tier = "fallback"
        => /\ chat[r].classifyCalls = 0
           /\ chat[r].completionCalls = 0
           /\ chat[r].pc # "completing"
           /\ chat[r].invoked = <<"handleGeneralRequest">>
              => /\ Len(chat[r].response) = 1
                 /\ chat[r].response[1].t = "string"
                 /\ includes(chat[r].response[1].s,
                             "However, advanced AI features require API configuration.")
                 /\ chat[r].response[1] = Str(UnconfiguredText(chat[r].message))

\* A request was answered by the keyword rules and the canned text, and an
\* update has stored a real key since.
C27_Witness ==
    /\ chat[1].tier = "fallback"
    /\ chat[1].pc = "done"
    /\ chat[1].invoked = <<"handleGeneralRequest">>
    /\ chat[1].message = Str("a high-end image of our office")
    /\ openaiKey = Str(RealKey)
    /\ sent = Reply("updateOpenAIConfig", 200, TRUE)

\* The message of request r is a string that names a calendar the way
\* handlePromptRequest tests it.
AsksForCalendar(r) ==
    /\ chat[r].message.t = "string"
    /\ \/ OccursIn("content calendar", chat[r].message.s)
       \/ OccursIn("weekly calendar", chat[r].message.s)

\* C28: with no credential configured no chat request returns an envelope
\* with a calendar side field: a message that contains 'content calendar' or
\* 'weekly calendar' is classified calendar, or email, by the keyword rules,
\* so the content-generation capability is not selected for it.
C28_NoCalendarFromKeywordRules ==
    \A r \in Requests :
        chat[r].tier = "fallback"
        => /\ \A i \in 1..Len(chat[r].emitted) :
                 chat[r].emitted[i].success => chat[r].emitted[i].calendar = Undefined
           /\ AsksForCalendar(r)
              => /\ chat[r].intent \in {<<Intent("calendar", 7, "calendar_management")>>,
                                        <<Intent("email", 7, "email_management")>>}
                 /\ chat[r].invoked \in {<<"calendarAssistant">>, <<"emailManager">>}

\* A request for a weekly calendar that also holds the keyword 'prompt' was
\* answered by the calendar capability.
C28_Witness ==
    /\ chat[1].tier = "fallback"
    /\ chat[1].pc = "done"
    /\ chat[1].message = Str("a prompt for my Weekly Calendar")
    /\ chat[1].invoked = <<"calendarAssistant">>
    /\ Len(chat[1].emitted) = 1
    /\ chat[1].emitted[1].success
    /\ chat[1].emitted[1].calendar = Undefined

\* C29: with no credential configured the keyword rules never answer
\* business_intelligence or content: no chat request invokes the
\* business-intelligence capability, and the content-generation capability is
\* invoked only for the category prompts, that is for a message that holds
\* 'prompt' or 'generate' and no keyword of the rules before it.
C29_KeywordRulesCategories ==
    \A r \in Requests :
        (chat[r].tier = "fallback" /\ chat[r].intent # <<>>)
        => /\ Get(chat[r].intent[1], "category")
                 \notin {Str("business_intelligence"), Str("content")}
           /\ chat[r].invoked # <<"businessIntelligence">>
           /\ chat[r].invoked = <<"handlePromptRequest">>
              => /\ Get(chat[r].intent[1], "category") = Str("prompts")
                 /\ chat[r].message.t = "string"
                 /\ OccursIn("prompt", chat[r].message.s)
                       \/ OccursIn("generate", chat[r].message.s)
                 /\ \A k \in {"email", "calendar", "schedule", "call", "phone",
                              "research", "analyze", "social", "content",
                              "client", "project"} :
                       ~OccursIn(k, chat[r].message.s)

\* The content-generation capability has answered a request of the keyword
\* tier.
C29_Witness ==
    /\ chat[1].tier = "fallback"
    /\ chat[1].pc = "done"
    /\ chat[1].message = Str("generate prompt")
    /\ chat[1].intent = <<Intent("prompts", 7, "prompt_generation")>>
    /\ chat[1].invoked = <<"handlePromptRequest">>
    /\ EmittedSuccess(1)

\* Request r is a voice request that found voice enabled: the transcription
\* was handed to handleChatMessage.
VoiceEnabledFor(r) ==
    chat[r].route = "voice" /\ chat[r].message = Str(transcribeAudio)

\* C30: a voice request with voice enabled runs its transcription through
\* handleChatMessage once and answers with a success envelope that carries
\* the transcription and the chat response; with voice disabled it answers
\* 503 and neither classifies nor appends.  Either way the voice request is
\* sent exactly one response.
C30_VoiceRequest ==
    \A r \in Requests :
        (chat[r].route = "voice" /\ chat[r].pc = "done")
        => /\ Len(chat[r].voiceSent) = 1
           /\ VoiceEnabledFor(r)
              => /\ Len(chat[r].intent) = 1
                 /\ chat[r].voiceSent[1].success
                 /\ chat[r].voiceSent[1].status = 200
                 /\ chat[r].voiceSent[1].transcription = transcribeAudio
           /\ ~VoiceEnabledFor(r)
              => /\ chat[r].voiceSent[1] = voiceDisabledReply
                 /\ chat[r].voiceSent[1].status = 503
                 /\ chat[r].intent = <<>>
                 /\ chat[r].classifyCalls = 0
                 /\ chat[r].logged = <<>>

\* What does hold: one response per voice request, 503 without classifying
\* or appending when voice is disabled, and otherwise one run of
\* handleChatMessage followed by the failure reply.
VoiceRequestAsCoded ==
    \A r \in Requests :
        (chat[r].route = "voice" /\ chat[r].pc = "done")
        => /\ Len(chat[r].voiceSent) = 1
           /\ VoiceEnabledFor(r)
              => /\ Len(chat[r].intent) = 1
                 /\ chat[r].voiceSent[1] = voiceFailedReply
           /\ ~VoiceEnabledFor(r)
              => /\ chat[r].voiceSent[1] = voiceDisabledReply
                 /\ chat[r].intent = <<>>
                 /\ chat[r].classifyCalls = 0
                 /\ chat[r].logged = <<>>
====
